---- MODULE Spec2Model ----
(***************************************************************************)
(* Model of src/main.py: the host side of the TP70 bill validator (104U    *)
(* protocol), the payment session it accumulates and the unlock / lock     *)
(* signalling to the ESP32 actuator.                                       *)
(*                                                                         *)
(* One action per kind of iteration of the `while True` loop of main().    *)
(* Each iteration is one atomic step: the program is single-threaded and   *)
(* an iteration reads the clock at most once (line 138 or line 150).       *)
(* Time is the wall clock in whole seconds; it advances between            *)
(* iterations (read timeout 0.2 s, sleep 0.02 s) by the Tick action.       *)
(***************************************************************************)
EXTENDS Integers, Sequences, FiniteSets, TLC

(***************************************************************************)
(* Bounds of the model.                                                    *)
(***************************************************************************)
\* seconds by which one Tick advances the wall clock
TickStep == 40
\* the wall clock stops advancing here
MaxNow == 240
\* the validator presents no further known bill once this would be exceeded
MaxAmount == 500
\* lines the operator types on the console
MaxStdin == 1

(***************************************************************************)
(* USER CONFIG and protocol bytes (src/main.py lines 19-41).               *)
(***************************************************************************)
SESSION_TIMEOUT_S == 120

ACCEPT == 2
REJECT == 15
POWER1 == 128
POWER2 == 143
ESCROW == 129
POLL == 12

\* BILL_VALUE = {0x40: 100, 0x41: 200}
BILL_VALUE == [c \in {64, 65} |-> IF c = 64 THEN 100 ELSE 200]

\* TARGET_AMOUNT is user configuration ("change as you like"): 100 as
\* shipped, 250 as the configuration in which one bill does not reach it.
TargetChoices == {100, 250}

\* Bytes the validator may send, as first byte or as denomination byte.
RxBytes == {2, 16, 64, 65, 66, 68, 128, 129, 143}

\* The actuator channel: absent (COM_ESP32 None or open failed), working,
\* or present with a failing write.
EspModes == {"none", "ok", "fail"}

\* Lines the operator may type on the console.
StdinLines == {"reset"}

\* time.time() evaluated once, when the class body of Session is executed
\* (the default of the dataclass field), taken as the origin of the clock.
ClassDefTime == 0

VARIABLES
    TARGET_AMOUNT,  \* the configured target
    esp,            \* the actuator channel, one of EspModes
    sess,           \* the Session record
    powered,        \* local of main(): a power-up has been acknowledged
    now,            \* the wall clock, time.time()
    rx,             \* bytes read from tp in the last loop iteration
    tpOut,          \* bytes written to tp in the last loop iteration
    calls,          \* unlock_action / relock_action calls of the last iteration
    espOut,         \* commands written to esp in the last loop iteration
    stdin,          \* console lines typed by the operator
    accepted,       \* denominations accepted since the session was created
    running,        \* main() has not been left by an exception
    quiet           \* the validator has stopped sending: every read times out

vars == <<TARGET_AMOUNT, esp, sess, powered, now, rx, tpOut, calls, espOut,
          stdin, accepted, running, quiet>>

\* Session(): the dataclass defaults.
Session == [amount |-> 0, last_activity |-> ClassDefTime, active |-> TRUE]

\* BILL_VALUE.get(bill_code): the value, or None (modelled as -1).
None == -1

\* A lookup with the commented-out entry 0x42: 500 enabled.
BillValueGetWith42(bill_code) ==
    IF bill_code = 66 THEN 500
    ELSE IF bill_code \in DOMAIN BILL_VALUE THEN BILL_VALUE[bill_code] ELSE None

BillValueGet(bill_code) ==
    IF bill_code \in DOMAIN BILL_VALUE THEN BILL_VALUE[bill_code] ELSE None

\* unlock_action(esp): what reaches the actuator channel.
unlock_action(e) == IF e = "ok" THEN <<"UNLOCK">> ELSE <<>>

\* relock_action(esp): what reaches the actuator channel.
relock_action(e) == IF e = "ok" THEN <<"LOCK">> ELSE <<>>

\* A failed write that is not caught.
ActuatorRaisesUncaught(e) ==
    /\ e # "none"
    /\ e = "fail"

\* lines 63-68 and 72-77: does an exception leave unlock_action or
\* relock_action?
ActuatorRaises(e) ==
    /\ e # "none"      \* `if esp:`
    /\ e = "fail"      \* esp.write raises
    /\ FALSE           \* `except Exception` swallows it

\* A credit that counts the bill instead of adding its value.
CreditCountsBills(s, value, t) ==
    [s EXCEPT !.amount = s.amount + 1, !.last_activity = t]

\* A credit that overwrites the balance instead of adding to it.
CreditOverwrites(s, value, t) ==
    [s EXCEPT !.amount = value, !.last_activity = t]

\* lines 137-138: the session after a bill of the given value is credited.
Credit(s, value, t) ==
    [s EXCEPT !.amount = s.amount + value, !.last_activity = t]

\* A target check that misses the amount exactly equal to the target.
TargetReachedStrict(s, target) == s.amount > target

\* A target check with the comparison reversed.
TargetReachedReversed(s, target) == s.amount <= target

\* line 142: the target check after a credited bill.
TargetReached(s, target) == s.amount >= target

\* A timeout condition with the subtraction the wrong way round.
TimedOutReversed(s, t) ==
    s.active /\ (s.last_activity - t) > SESSION_TIMEOUT_S /\ s.amount > 0

\* A timeout condition without the test of the amount.
TimedOutAnyAmount(s, t) ==
    s.active /\ (t - s.last_activity) > SESSION_TIMEOUT_S

\* line 161: the condition of the timeout auto-cancel.
TimedOut(s, t) ==
    s.active /\ (t - s.last_activity) > SESSION_TIMEOUT_S /\ s.amount > 0

\* line 154: the condition of the keep-alive POLL.
PollDue(p, t) == p /\ t % 3 = 0

Init ==
    /\ TARGET_AMOUNT \in TargetChoices
    /\ esp \in EspModes
    /\ sess = Session
    /\ powered = FALSE
    /\ now = ClassDefTime
    /\ rx = <<>>
    /\ tpOut = <<>>
    /\ calls = <<>>
    /\ espOut = <<>>
    /\ stdin = <<>>
    /\ accepted = <<>>
    /\ running = TRUE
    /\ quiet = FALSE

\* A power-up that also starts a fresh session.
PowerUpResets(code) ==
    /\ running /\ ~quiet
    /\ code \in {POWER1, POWER2}
    /\ rx' = <<code>>
    /\ tpOut' = <<ACCEPT>>
    /\ powered' = TRUE
    /\ sess' = Session
    /\ calls' = <<>>
    /\ espOut' = <<>>
    /\ UNCHANGED <<TARGET_AMOUNT, esp, now, stdin, accepted, running, quiet>>

\* lines 104-113: a power-up byte is read and acknowledged; `continue`.
PowerUp(code) ==
    /\ running /\ ~quiet
    /\ code \in {POWER1, POWER2}
    /\ rx' = <<code>>
    /\ tpOut' = <<ACCEPT>>
    /\ powered' = TRUE
    /\ calls' = <<>>
    /\ espOut' = <<>>
    /\ UNCHANGED <<TARGET_AMOUNT, esp, sess, now, stdin, accepted, running, quiet>>

\* An incomplete frame without its `continue`: the periodic tasks run.
EscrowIncompleteFallsThrough ==
    /\ running /\ ~quiet
    /\ rx' = <<ESCROW>>
    /\ tpOut' = IF PollDue(powered, now) THEN <<POLL>> ELSE <<>>
    /\ IF TimedOut(sess, now)
       THEN /\ sess' = Session
            /\ accepted' = <<>>
            /\ calls' = <<"lock">>
            /\ espOut' = relock_action(esp)
            /\ running' = ~ActuatorRaises(esp)
       ELSE /\ sess' = sess
            /\ accepted' = accepted
            /\ calls' = <<>>
            /\ espOut' = <<>>
            /\ running' = running
    /\ UNCHANGED <<TARGET_AMOUNT, esp, powered, now, stdin, quiet>>

\* lines 115-120: ESCROW, then the read of the denomination times out.
EscrowIncomplete ==
    /\ running /\ ~quiet
    /\ rx' = <<ESCROW>>
    /\ tpOut' = <<>>
    /\ calls' = <<>>
    /\ espOut' = <<>>
    /\ UNCHANGED <<TARGET_AMOUNT, esp, sess, powered, now, stdin, accepted, running, quiet>>

\* lines 115-130: ESCROW and a denomination BILL_VALUE does not know.
EscrowReject(bill_code) ==
    /\ running /\ ~quiet
    /\ BillValueGet(bill_code) = None
    /\ rx' = <<ESCROW, bill_code>>
    /\ tpOut' = <<REJECT>>
    /\ calls' = <<>>
    /\ espOut' = <<>>
    /\ UNCHANGED <<TARGET_AMOUNT, esp, sess, powered, now, stdin, accepted, running, quiet>>

\* An accept that starts a fresh session once the target is reached
\* (reset on unlock).
EscrowAcceptResetsOnUnlock(bill_code) ==
    /\ running /\ ~quiet
    /\ BillValueGet(bill_code) # None
    /\ sess.amount + BillValueGet(bill_code) <= MaxAmount
    /\ rx' = <<ESCROW, bill_code>>
    /\ tpOut' = <<ACCEPT>>
    /\ IF TargetReached(Credit(sess, BillValueGet(bill_code), now), TARGET_AMOUNT)
       THEN /\ sess' = Session
            /\ accepted' = <<>>
            /\ calls' = <<"unlock">>
            /\ espOut' = unlock_action(esp)
            /\ running' = ~ActuatorRaises(esp)
       ELSE /\ sess' = Credit(sess, BillValueGet(bill_code), now)
            /\ accepted' = Append(accepted, bill_code)
            /\ calls' = <<>>
            /\ espOut' = <<>>
            /\ running' = running
    /\ UNCHANGED <<TARGET_AMOUNT, esp, powered, now, stdin, quiet>>

\* An accept that turns the bill away until a power-up has been seen.
EscrowAcceptOnlyWhenPowered(bill_code) ==
    /\ running /\ ~quiet
    /\ BillValueGet(bill_code) # None
    /\ sess.amount + BillValueGet(bill_code) <= MaxAmount
    /\ rx' = <<ESCROW, bill_code>>
    /\ IF powered
       THEN /\ tpOut' = <<ACCEPT>>
            /\ sess' = Credit(sess, BillValueGet(bill_code), now)
            /\ accepted' = Append(accepted, bill_code)
            /\ IF TargetReached(sess', TARGET_AMOUNT)
               THEN /\ calls' = <<"unlock">>
                    /\ espOut' = unlock_action(esp)
                    /\ running' = ~ActuatorRaises(esp)
               ELSE /\ calls' = <<>>
                    /\ espOut' = <<>>
                    /\ running' = running
       ELSE /\ tpOut' = <<REJECT>>
            /\ calls' = <<>>
            /\ espOut' = <<>>
            /\ UNCHANGED <<sess, accepted, running>>
    /\ UNCHANGED <<TARGET_AMOUNT, esp, powered, now, stdin, quiet>>

\* lines 115-144: ESCROW and a known denomination: accept, credit, check
\* the target.
EscrowAccept(bill_code) ==
    /\ running /\ ~quiet
    /\ BillValueGet(bill_code) # None
    /\ sess.amount + BillValueGet(bill_code) <= MaxAmount
    /\ rx' = <<ESCROW, bill_code>>
    /\ tpOut' = <<ACCEPT>>
    /\ sess' = Credit(sess, BillValueGet(bill_code), now)
    /\ accepted' = Append(accepted, bill_code)
    /\ IF TargetReached(sess', TARGET_AMOUNT)
       THEN /\ calls' = <<"unlock">>
            /\ espOut' = unlock_action(esp)
            /\ running' = ~ActuatorRaises(esp)
       ELSE /\ calls' = <<>>
            /\ espOut' = <<>>
            /\ running' = running
    /\ UNCHANGED <<TARGET_AMOUNT, esp, powered, now, stdin, quiet>>

\* Periodic tasks that answer an unrecognized byte with REJECT.
PeriodicTasksRejectsUnknown(b) ==
    /\ running
    /\ \/ b = <<>>
       \/ /\ ~quiet
          /\ \E code \in RxBytes \ {POWER1, POWER2, ESCROW} : b = <<code>>
    /\ rx' = b
    /\ tpOut' = (IF b # <<>> THEN <<REJECT>> ELSE <<>>) \o
                (IF PollDue(powered, now) THEN <<POLL>> ELSE <<>>)
    /\ IF TimedOut(sess, now)
       THEN /\ sess' = Session
            /\ accepted' = <<>>
            /\ calls' = <<"lock">>
            /\ espOut' = relock_action(esp)
            /\ running' = ~ActuatorRaises(esp)
       ELSE /\ sess' = sess
            /\ accepted' = accepted
            /\ calls' = <<>>
            /\ espOut' = <<>>
            /\ running' = running
    /\ UNCHANGED <<TARGET_AMOUNT, esp, powered, now, stdin, quiet>>

\* lines 104-106 and 149-167: the read times out (b = <<>>) or yields a byte
\* that is neither a power-up nor ESCROW; the periodic tasks run.
PeriodicTasks(b) ==
    /\ running
    /\ \/ b = <<>>
       \/ /\ ~quiet
          /\ \E code \in RxBytes \ {POWER1, POWER2, ESCROW} : b = <<code>>
    /\ rx' = b
    /\ tpOut' = IF PollDue(powered, now) THEN <<POLL>> ELSE <<>>
    /\ IF TimedOut(sess, now)
       THEN /\ sess' = Session
            /\ accepted' = <<>>
            /\ calls' = <<"lock">>
            /\ espOut' = relock_action(esp)
            /\ running' = ~ActuatorRaises(esp)
       ELSE /\ sess' = sess
            /\ accepted' = accepted
            /\ calls' = <<>>
            /\ espOut' = <<>>
            /\ running' = running
    /\ UNCHANGED <<TARGET_AMOUNT, esp, powered, now, stdin, quiet>>

\* The operator types a line on the console. main() never reads the
\* console: the line stays where it is and nothing else changes.
OperatorCommand(line) ==
    /\ Len(stdin) < MaxStdin
    /\ stdin' = Append(stdin, line)
    /\ UNCHANGED <<TARGET_AMOUNT, esp, sess, powered, now, rx, tpOut, calls, espOut,
                   accepted, running, quiet>>

\* Time passes between two iterations.
Tick ==
    /\ now + TickStep <= MaxNow
    /\ now' = now + TickStep
    /\ UNCHANGED <<TARGET_AMOUNT, esp, sess, powered, rx, tpOut, calls, espOut, stdin,
                   accepted, running, quiet>>

\* The validator falls silent: from here on every tp.read(1) times out.
InputStops ==
    /\ ~quiet
    /\ quiet' = TRUE
    /\ UNCHANGED <<TARGET_AMOUNT, esp, sess, powered, now, rx, tpOut, calls, espOut,
                   stdin, accepted, running>>

Next ==
    \/ \E code \in RxBytes : PowerUp(code)
    \/ EscrowIncomplete
    \/ \E bill_code \in RxBytes : EscrowReject(bill_code)
    \/ \E bill_code \in RxBytes : EscrowAccept(bill_code)
    \/ \E b \in {<<>>} \cup {<<c>> : c \in RxBytes} : PeriodicTasks(b)
    \/ \E line \in StdinLines : OperatorCommand(line)
    \/ Tick
    \/ InputStops

Spec == Init /\ [][Next]_vars

\* The loop never blocks (`while True`, reads bounded by timeout=0.2, a
\* sleep of 0.02 s), so an iteration whose read times out keeps being taken,
\* and the wall clock keeps advancing.
LiveSpec ==
    /\ Init
    /\ [][Next]_vars
    /\ WF_vars(Tick)
    /\ WF_vars(PeriodicTasks(<<>>))

TypeOK ==
    /\ TARGET_AMOUNT \in TargetChoices
    /\ esp \in EspModes
    /\ sess.amount \in 0..MaxAmount
    /\ sess.last_activity \in 0..MaxNow
    /\ sess.active \in BOOLEAN
    /\ powered \in BOOLEAN
    /\ now \in 0..MaxNow
    /\ accepted \in Seq(DOMAIN BILL_VALUE)
    /\ running \in BOOLEAN
    /\ quiet \in BOOLEAN

(***************************************************************************)
(* Vocabulary of the properties.                                           *)
(***************************************************************************)
Range(q) == {q[i] : i \in DOMAIN q}

\* a step that is one iteration of the main loop
LoopStep == now' = now /\ stdin' = stdin /\ quiet' = quiet

\* the iteration read a complete escrow frame with denomination c
EscrowFrameStep(c) == LoopStep /\ rx' = <<ESCROW, c>>

\* the iteration ran the periodic tasks (read timeout or unrecognized byte)
TimeoutCheckStep ==
    /\ LoopStep
    /\ \/ rx' = <<>>
       \/ Len(rx') = 1 /\ rx'[1] \notin {POWER1, POWER2, ESCROW}

\* the iteration accepted a bill
BillAcceptedStep == \E c \in DOMAIN BILL_VALUE : EscrowFrameStep(c)

\* C1: an escrow frame with a denomination of BILL_VALUE adds exactly the
\* mapped value to the session amount and writes exactly one ACCEPT byte.
ThmC1 ==
    [][\A c \in DOMAIN BILL_VALUE :
          EscrowFrameStep(c) =>
             /\ sess'.amount = sess.amount + BILL_VALUE[c]
             /\ tpOut' = <<ACCEPT>>]_vars

WitC1 ==
    /\ rx = <<ESCROW, 65>>
    /\ tpOut = <<ACCEPT>>
    /\ sess.amount = 300

\* C2: an escrow frame with a denomination absent from BILL_VALUE writes
\* exactly one REJECT byte, leaves the session unchanged and invokes neither
\* unlock nor lock.
ThmC2 ==
    [][\A c \in RxBytes \ DOMAIN BILL_VALUE :
          EscrowFrameStep(c) =>
             /\ tpOut' = <<REJECT>>
             /\ sess' = sess
             /\ calls' = <<>>]_vars

WitC2 ==
    /\ rx = <<ESCROW, 66>>
    /\ tpOut = <<REJECT>>
    /\ sess.amount = 100
    /\ calls = <<>>

\* C3 as claimed: unlock fires in an iteration if and only if the amount
\* goes from below the target to at or above it in that iteration.
CexC3 ==
    [][LoopStep =>
          (("unlock" \in Range(calls')) <=>
              (sess.amount < TARGET_AMOUNT /\ sess'.amount >= TARGET_AMOUNT))]_vars

\* C3 amended: unlock fires in an iteration, once, if and only if the
\* iteration accepts a bill and the amount after the credit is at or above
\* the target, whether or not the amount was already there.
ThmC3 ==
    [][LoopStep =>
          /\ ("unlock" \in Range(calls')) <=>
                (BillAcceptedStep /\ sess'.amount >= TARGET_AMOUNT)
          /\ ("unlock" \in Range(calls')) => calls' = <<"unlock">>]_vars

WitC3 ==
    /\ TARGET_AMOUNT = 100
    /\ rx = <<ESCROW, 64>>
    /\ sess.amount = 300
    /\ calls = <<"unlock">>

\* C4 as claimed: a timeout check on an active session idle for longer than
\* SESSION_TIMEOUT_S resets the amount to 0 and invokes the relock action,
\* whatever the amount.
CexC4 ==
    [][(/\ TimeoutCheckStep
        /\ sess.active
        /\ now - sess.last_activity > SESSION_TIMEOUT_S) =>
          (sess'.amount = 0 /\ calls' = <<"lock">>)]_vars

\* C5: unlock is never invoked with the amount below the target, and the
\* bill that takes the amount from below the target to at or above it
\* invokes unlock exactly once, decided on the updated amount.
ThmC5 ==
    [][LoopStep =>
          /\ ("unlock" \in Range(calls')) => sess'.amount >= TARGET_AMOUNT
          /\ (sess.amount < TARGET_AMOUNT /\ sess'.amount >= TARGET_AMOUNT) =>
                calls' = <<"unlock">>]_vars

WitC5 ==
    /\ TARGET_AMOUNT = 250
    /\ rx = <<ESCROW, 65>>
    /\ sess.amount = 300
    /\ calls = <<"unlock">>

\* C6: ESCROW followed by a read that times out writes no response byte,
\* leaves the session unchanged and invokes neither unlock nor lock.
ThmC6 ==
    [][(LoopStep /\ rx' = <<ESCROW>>) =>
          /\ tpOut' = <<>>
          /\ sess' = sess
          /\ calls' = <<>>]_vars

WitC6 ==
    /\ rx = <<ESCROW>>
    /\ tpOut = <<>>
    /\ calls = <<>>
    /\ PollDue(powered, now)
    /\ TimedOut(sess, now)

\* C7: every power-up byte is answered with one ACCEPT byte, never changes
\* the session and invokes neither unlock nor lock.
ThmC7 ==
    [][(LoopStep /\ rx' \in {<<POWER1>>, <<POWER2>>}) =>
          /\ tpOut' = <<ACCEPT>>
          /\ sess' = sess
          /\ calls' = <<>>]_vars

WitC7 ==
    /\ rx = <<POWER2>>
    /\ tpOut = <<ACCEPT>>
    /\ powered
    /\ TimedOut(sess, now)

\* C8 as claimed: an operator `reset` command sets the amount to 0, clears
\* active and invokes the lock action.
CexC8 ==
    [][(/\ Len(stdin') = Len(stdin) + 1
        /\ stdin'[Len(stdin')] = "reset") =>
          /\ sess'.amount = 0
          /\ sess'.active = FALSE
          /\ calls' = <<"lock">>]_vars

\* C9 as claimed: right after a timeout reset the session has amount 0 and
\* active false.
CexC9 == (calls = <<"lock">>) => (sess.amount = 0 /\ sess.active = FALSE)

\* C10 as claimed: after an accepted bill and after a session reset,
\* last_activity is the time at which the step was executed.
CexC10 ==
    [][(LoopStep /\ (BillAcceptedStep \/ calls' = <<"lock">>)) =>
          sess'.last_activity = now']_vars

\* the values of a sequence of accepted denominations, added up
RECURSIVE SumValues(_)
SumValues(q) ==
    IF q = <<>> THEN 0 ELSE BILL_VALUE[Head(q)] + SumValues(Tail(q))

\* the first byte of the iteration was neither a power-up nor ESCROW
UnrecognizedStep ==
    /\ LoopStep
    /\ Len(rx') = 1
    /\ rx'[1] \notin {POWER1, POWER2, ESCROW}

\* the session holds money and has been idle for longer than the timeout
Expired == sess.amount > 0 /\ now - sess.last_activity > SESSION_TIMEOUT_S

\* C11: the session amount is a non-negative integer, the sum of the values
\* of the bills accepted since the session was created (at start or by the
\* last reset); nothing else contributes.
ThmC11 ==
    /\ sess.amount \in Nat
    /\ sess.amount = SumValues(accepted)

WitC11 ==
    /\ accepted = <<64, 65>>
    /\ sess.amount = 300
    /\ rx = <<ESCROW, 66>>
    /\ powered

\* C12: with a failing or absent actuator channel the unlock and relock
\* actions return normally: the loop keeps running, nothing reaches the
\* channel and the session after the step is the one a successful write
\* leaves.
ThmC12 ==
    [][(LoopStep /\ calls' # <<>>) =>
          /\ running'
          /\ esp # "ok" => espOut' = <<>>
          /\ sess' = IF calls' = <<"lock">>
                        THEN Session
                        ELSE Credit(sess, BILL_VALUE[rx'[2]], now)]_vars

WitC12 ==
    /\ esp = "fail"
    /\ calls = <<"lock">>
    /\ espOut = <<>>
    /\ running
    /\ sess = Session

CexC14 == [][BillAcceptedStep => ~Expired]_vars

\* C15: the relock action is invoked only by the timeout check, only with
\* amount > 0 and the idle time beyond SESSION_TIMEOUT_S, and the same step
\* sets the amount to 0; at least one bill was accepted since the session
\* was created, hence since the previous lock.
ThmC15 ==
    [][(LoopStep /\ "lock" \in Range(calls')) =>
          /\ TimeoutCheckStep
          /\ calls' = <<"lock">>
          /\ sess.amount > 0
          /\ now - sess.last_activity > SESSION_TIMEOUT_S
          /\ sess'.amount = 0
          /\ accepted # <<>>]_vars

WitC15 ==
    /\ calls = <<"lock">>
    /\ espOut = <<"LOCK">>
    /\ sess.amount = 0
    /\ accepted = <<>>

\* C16: once the validator is silent and while the clock can still pass the
\* timeout, a session with amount > 0 (below or at the target) is eventually
\* reset to 0 with the relock action invoked.
ThmC16 ==
    (/\ quiet
     /\ sess.amount > 0
     /\ sess.last_activity + SESSION_TIMEOUT_S <= MaxNow - TickStep)
       ~> (sess.amount = 0 /\ calls = <<"lock">>)

WitC16 ==
    /\ quiet
    /\ calls = <<"lock">>
    /\ sess.amount = 0
    /\ TARGET_AMOUNT = 100
    /\ rx = <<>>

\* C17: the iteration that invokes unlock leaves the session as the credit
\* made it (no reset), and the amount falls below the target again only by
\* a timeout reset.
ThmC17 ==
    [][/\ (LoopStep /\ calls' = <<"unlock">>) =>
             /\ sess'.amount = sess.amount + BILL_VALUE[rx'[2]]
             /\ sess'.amount >= TARGET_AMOUNT
             /\ sess'.last_activity = now
             /\ sess'.active = sess.active
       /\ (sess.amount >= TARGET_AMOUNT /\ sess'.amount < TARGET_AMOUNT) =>
             (TimeoutCheckStep /\ calls' = <<"lock">>)]_vars

WitC17 ==
    /\ sess.amount >= TARGET_AMOUNT
    /\ rx = <<>>
    /\ calls = <<>>
    /\ now > sess.last_activity
    /\ accepted # <<>>

\* C18: the response, the resulting session and the unlock decision of an
\* escrow frame are determined without the powered flag, which the frame
\* leaves alone; POLL is written only when powered.
ThmC18 ==
    [][/\ \A c \in RxBytes :
             EscrowFrameStep(c) =>
                /\ powered' = powered
                /\ IF c \in DOMAIN BILL_VALUE
                   THEN /\ tpOut' = <<ACCEPT>>
                        /\ sess' = Credit(sess, BILL_VALUE[c], now)
                        /\ calls' = IF sess.amount + BILL_VALUE[c] >= TARGET_AMOUNT
                                       THEN <<"unlock">> ELSE <<>>
                   ELSE /\ tpOut' = <<REJECT>>
                        /\ sess' = sess
                        /\ calls' = <<>>
       /\ (LoopStep /\ POLL \in Range(tpOut')) => powered]_vars

WitC18 ==
    /\ ~powered
    /\ rx = <<ESCROW, 64>>
    /\ tpOut = <<ACCEPT>>
    /\ calls = <<"unlock">>
    /\ sess.amount = 200
====
